---- MODULE Spec2Model ----
(***************************************************************************)
(* Model of github-mcp-server: the rate-limit guard (withRateLimitRetry,   *)
(* handleRateLimit), the tool registry built by NewServer, the parameter   *)
(* helpers, and the handlers of create_project_v2, get_project_v2,         *)
(* delete_project_v2_item, get_me and diagnose_github_mcp.                 *)
(*                                                                         *)
(* Time is counted in whole seconds.                                       *)
(***************************************************************************)
EXTENDS Integers, Sequences, FiniteSets, TLC

VARIABLES
    g,          \* one execution of withRateLimitRetry
    now,        \* wall clock, seconds
    ctx,        \* the per-call context.Context handed to the guard
    readOnly,   \* cfg.readOnly, fixed at startup
    phase,      \* "building" until NewServer returned, then "listening"
    tools,      \* names registered with s.AddTool
    served,     \* outcomes of the tool calls dispatched so far
    ran,        \* names of the tools whose handler has been run
    h,          \* the tool handler invocation in progress
    b,          \* one call of a parameter helper: request arguments and outcome
    g2          \* a second execution of withRateLimitRetry, concurrent with g

vars == <<g, now, ctx, readOnly, phase, tools, served, ran, h, b, g2>>

guardVars  == <<g, now, ctx>>
serverVars == <<readOnly, phase, tools, served, ran, h>>

-----------------------------------------------------------------------------
(* Bounds *)

MaxRetriesBound == 2     \* maxRetries ranges over -1..MaxRetriesBound
MaxTime         == 3     \* the clock stops advancing here
MaxReset        == 2     \* reset times reported by the API: 0..MaxReset
MaxCalls        == 2     \* tool calls dispatched per run
MaxSeqLen       == 2     \* longest array argument
MaxPairRetries  == 1     \* maxRetries of two concurrent executions: 0..MaxPairRetries

-----------------------------------------------------------------------------
(* Responses of the guarded function fn: a github.Response and an error *)

NoResp == [err |-> "none", id |-> "", hasResp |-> FALSE,
           remaining |-> 0, limit |-> 0, reset |-> 0]

\* fn returned err that errors.As matches as a github.RateLimitError
RateLimitErrs ==
    { [NoResp EXCEPT !.err = "ratelimit", !.reset = t] : t \in 0..MaxReset }

\* fn returned any other error
OtherErrs ==
    { [NoResp EXCEPT !.err = "other", !.id = e] : e \in {"E1", "E2"} }

\* (remaining, limit) pairs: exhausted, low, ample
Quotas == { <<0, 60>>, <<1, 60>>, <<30, 60>> }

\* a response whose Rate carries no quota information: all fields zero
NoQuotaResp == [NoResp EXCEPT !.hasResp = TRUE]

\* fn returned a response and no error
QuotaResps ==
    { [NoResp EXCEPT !.hasResp = TRUE, !.remaining = q[1], !.limit = q[2],
                     !.reset = t] : q \in Quotas, t \in 0..MaxReset }
    \cup {NoQuotaResp}

Responses == RateLimitErrs \cup OtherErrs \cup QuotaResps \cup {NoResp}

-----------------------------------------------------------------------------
(* handleRateLimit *)

\* the low-quota warning: float64(Remaining)/float64(Limit) < 0.1,
\* with x/0 = +Inf for x > 0
LowQuota(resp) ==
    /\ resp.limit > 0
    /\ 10 * resp.remaining < resp.limit

\* variant: a low remaining/limit ratio is reported as exhaustion too
handleRateLimit_LowIsError(resp) ==
    IF ~resp.hasResp THEN FALSE
    ELSE IF resp.remaining = 0 THEN TRUE
    ELSE IF LowQuota(resp) THEN TRUE
    ELSE FALSE

\* variant: exhaustion is reported only when the response carries a limit
handleRateLimit_NeedsLimit(resp) ==
    IF ~resp.hasResp THEN FALSE
    ELSE IF resp.remaining = 0 /\ resp.limit > 0 THEN TRUE
    ELSE FALSE

\* variant: a single remaining request already counts as exhaustion
handleRateLimit_AtMostOne(resp) ==
    IF ~resp.hasResp THEN FALSE
    ELSE IF resp.remaining <= 1 THEN TRUE
    ELSE FALSE

\* the error handleRateLimit returns: TRUE for a RateLimitError, FALSE for nil
handleRateLimit(resp) ==
    IF ~resp.hasResp THEN FALSE
    ELSE IF resp.remaining = 0 THEN TRUE
    ELSE FALSE

\* whether handleRateLimit prints the warning
handleRateLimitWarns(resp) ==
    /\ resp.hasResp
    /\ resp.remaining # 0
    /\ LowQuota(resp)

-----------------------------------------------------------------------------
(* withRateLimitRetry *)

Pow2(n) == IF n = 0 THEN 1 ELSE IF n = 1 THEN 2 ELSE IF n = 2 THEN 4
           ELSE IF n = 3 THEN 8 ELSE 16

Result(kind, msg, of) == [kind |-> kind, msg |-> msg, of |-> of]

NoResult == Result("pending", "", NoResp)

\* variant: always the exponential backoff, whatever the reset time
ErrSleepDuration_BackoffOnly(r, i, t) == Pow2(i)

\* sleepDuration of the rate-limit-error branch
ErrSleepDuration(r, i, t) ==
    IF r.reset - t < 0 THEN Pow2(i) ELSE r.reset - t

\* duration handed to time.After in the header branch
HdrSleepDuration(r, i, t) == r.reset - t

\* variant: every error is taken for a rate-limit error
IsRateLimitErr_Any(r) == TRUE

\* errors.As(err, &rateLimitErr) on the error fn returned
IsRateLimitErr(r) == r.err = "ratelimit"

\* variant: the terminal return is never taken
LastAttempt_Never(st) == FALSE

\* variant: the terminal return is taken one attempt early
LastAttempt_Early(st) == st.i + 1 >= st.maxRetries

\* if i == maxRetries
LastAttempt(st) == st.i = st.maxRetries

Sleep(st, r, branch, d, t) ==
    [st EXCEPT !.pc = "select",
               !.wakeAt = t + d,
               !.sleeps = Append(@, [d |-> d, branch |-> branch,
                                     attempt |-> st.i, at |-> t])]

Return(st, res) == [st EXCEPT !.pc = "done", !.result = res]

\* one loop iteration from the call of fn to the select or the return
AfterFn(st, r, t) ==
    LET st1 == [st EXCEPT !.trace = Append(@, [at |-> t, r |-> r]),
                          !.warnings = IF r.err = "none" /\ handleRateLimitWarns(r)
                                       THEN @ + 1 ELSE @]
    IN  IF r.err # "none" THEN
            IF IsRateLimitErr(r) THEN
                IF LastAttempt(st)
                THEN Return(st1, Result("ratelimit",
                        "max retries exceeded waiting for rate limit", r))
                ELSE Sleep(st1, r, "err", ErrSleepDuration(r, st.i, t), t)
            ELSE Return(st1, Result("other", "", r))
        ELSE IF handleRateLimit(r) THEN
            IF LastAttempt(st)
            THEN Return(st1, Result("ratelimit",
                    "max retries exceeded waiting for rate limit reset", r))
            ELSE Sleep(st1, r, "hdr", HdrSleepDuration(r, st.i, t), t)
        ELSE Return(st1, Result("nil", "", NoResp))

GuardInit(m) ==
    [pc |-> "enter", maxRetries |-> m, i |-> 0, trace |-> <<>>,
     sleeps |-> <<>>, wakeAt |-> 0, warnings |-> 0, result |-> NoResult]

NoCtx == [cancelled |-> FALSE, inSleep |-> FALSE, calls |-> 0]

\* the loop condition i <= maxRetries; leaving the loop returns lastErr,
\* which is nil unless a break set it
LoopTop(st) ==
    IF st.i <= st.maxRetries THEN [st EXCEPT !.pc = "call"]
    ELSE Return(st, Result("nil", "", NoResp))

\* for i := 0; i <= maxRetries: the first evaluation of the loop condition
Enter ==
    /\ g.pc = "enter"
    /\ g' = LoopTop(g)
    /\ UNCHANGED <<now, ctx>>

\* resp, err := fn() and the code that follows it in the loop body
Invoke ==
    /\ g.pc = "call"
    /\ \E r \in Responses : g' = AfterFn(g, r, now)
    /\ UNCHANGED <<now, ctx>>

\* case <-time.After(d): continue
TimerFires ==
    /\ g.pc = "select"
    /\ now >= g.wakeAt
    /\ g' = LoopTop([g EXCEPT !.i = @ + 1])
    /\ UNCHANGED <<now, ctx>>

\* variant: a cancelled sleep surfaces the rate-limit condition
CtxDone_AsRateLimit ==
    /\ g.pc = "select"
    /\ ctx.cancelled
    /\ g' = Return(g, Result("ratelimit",
                "max retries exceeded waiting for rate limit",
                g.trace[Len(g.trace)].r))
    /\ UNCHANGED <<now, ctx>>

\* case <-ctx.Done(): return ctx.Err()
CtxDone ==
    /\ g.pc = "select"
    /\ ctx.cancelled
    /\ g' = Return(g, Result("ctx", "", NoResp))
    /\ UNCHANGED <<now, ctx>>

\* the caller cancels the context
Cancel ==
    /\ ~ctx.cancelled
    /\ g.pc # "done"
    /\ ctx' = [cancelled |-> TRUE,
               inSleep   |-> g.pc = "select" /\ now < g.wakeAt,
               calls     |-> Len(g.trace)]
    /\ UNCHANGED <<g, now>>

\* a select with a ready case does not wait
SelectReady == g.pc = "select" /\ (ctx.cancelled \/ now >= g.wakeAt)

Tick ==
    /\ now < MaxTime
    /\ g.pc # "done"
    /\ ~SelectReady
    /\ now' = now + 1
    /\ UNCHANGED <<g, ctx>>

-----------------------------------------------------------------------------
(* NewServer: the tool registry *)

\* a tool name, split at its first underscore: get_project_v2 is
\* Tool("get", "project_v2")
Tool(verb, object) == <<verb, object>>

\* the tools NewServer adds unconditionally
ReadTools ==
    { Tool("get", "issue"), Tool("search", "issues"), Tool("list", "issues"),
      Tool("get", "issue_comments"),
      Tool("get", "pull_request"), Tool("list", "pull_requests"),
      Tool("get", "pull_request_files"), Tool("get", "pull_request_status"),
      Tool("get", "pull_request_comments"), Tool("get", "pull_request_reviews"),
      Tool("get", "project_v2"),
      Tool("search", "repositories"), Tool("get", "file_contents"),
      Tool("list", "commits"),
      Tool("search", "code"), Tool("search", "users"),
      Tool("get", "me"),
      Tool("get", "code_scanning_alert"), Tool("list", "code_scanning_alerts") }

\* the tools NewServer adds inside its if !readOnly blocks
WriteTools ==
    { Tool("create", "issue"), Tool("add", "issue_comment"),
      Tool("update", "issue"),
      Tool("merge", "pull_request"), Tool("update", "pull_request_branch"),
      Tool("create", "pull_request_review"), Tool("create", "pull_request"),
      Tool("update", "pull_request"),
      Tool("create", "project_v2"), Tool("add", "project_v2_item"),
      Tool("update", "project_v2_item"), Tool("delete", "project_v2_item"),
      Tool("create", "or_update_file"), Tool("create", "repository"),
      Tool("fork", "repository"), Tool("create", "branch"),
      Tool("push", "files") }

\* variant: the pull-request review tool is added outside the if block
NewServer_ReviewUngated(ro) ==
    ReadTools \cup {Tool("create", "pull_request_review")}
              \cup (IF ~ro THEN WriteTools ELSE {})

\* the set of tools held by the server NewServer returns
NewServer(ro) == ReadTools \cup (IF ~ro THEN WriteTools ELSE {})

\* names no tool of the server carries; diagnose_github_mcp is defined by
\* DiagnoseTool but never added by NewServer
UnknownNames ==
    { Tool("diagnose", "github_mcp"), Tool("delete", "repository"),
      Tool("get", "nothing") }

ToolNames == ReadTools \cup WriteTools \cup UnknownNames

\* outcome of a call whose name has no registered tool
UnknownTool(name) == [tool |-> name, kind |-> "UnknownToolError"]

\* outcome of a call that reached its handler
Handled(name) == [tool |-> name, kind |-> "result"]

\* ghServer := github.NewServer(getClient, version, cfg.readOnly, t)
CreateServer ==
    /\ phase = "off"
    /\ tools' = NewServer(readOnly)
    /\ phase' = "built"
    /\ UNCHANGED <<readOnly, served, ran, h>>

\* variant: one more tool is added when the server starts to listen
Listen_AddsTool ==
    /\ phase = "built"
    /\ phase' = "listening"
    /\ tools' = tools \cup {Tool("diagnose", "github_mcp")}
    /\ UNCHANGED <<readOnly, served, ran, h>>

\* stdioServer.Listen(ctx, in, out)
Listen ==
    /\ phase = "built"
    /\ phase' = "listening"
    /\ UNCHANGED <<readOnly, tools, served, ran, h>>

\* one tools/call request: looked up by name, then handled
Dispatch ==
    /\ phase = "listening"
    /\ Len(served) < MaxCalls
    /\ \E name \in ToolNames :
         IF name \in tools
         THEN /\ ran' = ran \cup {name}
              /\ served' = Append(served, Handled(name))
         ELSE /\ ran' = ran
              /\ served' = Append(served, UnknownTool(name))
    /\ UNCHANGED <<readOnly, phase, tools, h>>

-----------------------------------------------------------------------------
(* CreateProjectV2: the create_project_v2 handler *)

DefaultOwner == "manian0430"

Logins == { "manian0430", "acme" }

\* node ids the API may return; "" is the zero value of an absent node
NodeIDs == { "", "N_1", "N_2" }

\* request.Params.Arguments["owner"]: absent, not a string, or a string
OwnerArgs ==
    { [kind |-> "absent", val |-> ""], [kind |-> "number", val |-> ""] }
    \cup { [kind |-> "string", val |-> l] : l \in Logins }

\* owner after the extraction of lines 245-256
OwnerOf(arg) == IF arg.kind = "string" THEN arg.val ELSE DefaultOwner

\* outcome of one graphqlClient.Query / Mutate call
QueryOutcomes ==
    { [err |-> e, login |-> l, id |-> n] :
        e \in BOOLEAN, l \in Logins, n \in NodeIDs }

ToolError(prefix, detail) ==
    [kind |-> "toolError", isError |-> TRUE, text |-> <<prefix, detail>>]

ToolText(detail) ==
    [kind |-> "result", isError |-> FALSE, text |-> <<"", detail>>]

GoError == [kind |-> "goError", isError |-> FALSE, text |-> <<"", "">>]

Pending == [kind |-> "pending", isError |-> FALSE, text |-> <<"", "">>]

HandlerInit(arg) ==
    [pc |-> "start", owner |-> OwnerOf(arg), viewer |-> "", ownerID |-> "",
     via |-> "", queries |-> <<>>, result |-> Pending]

Finish(st, res) == [st EXCEPT !.pc = "done", !.result = res]

Asked(st, q, o) ==
    [st EXCEPT !.queries = Append(@, [q |-> q, err |-> o.err, id |-> o.id])]

\* restClient, graphqlClient, err := getClient(ctx)
GetClient ==
    /\ h.pc = "start"
    /\ \E failed \in BOOLEAN :
         h' = IF failed THEN Finish(h, GoError) ELSE [h EXCEPT !.pc = "viewer"]
    /\ UNCHANGED <<readOnly, phase, tools, served, ran>>

\* variant: the viewer's login is never recognised as the owner
OwnerIsViewer_Never(st, o) == FALSE

\* if viewerQuery.Viewer.Login == owner
OwnerIsViewer(st, o) == o.login = st.owner

\* variant: a failed viewer query does not end the call
AfterViewer_IgnoresError(st, o) ==
    LET st1 == Asked(st, "viewer", o) IN
    IF ~o.err /\ OwnerIsViewer(st, o)
    THEN [st1 EXCEPT !.pc = "mutate", !.viewer = o.login,
                     !.ownerID = o.id, !.via = "viewer"]
    ELSE [st1 EXCEPT !.pc = "user", !.viewer = o.login]

\* the outcome of the viewer query: error result, the viewer's own id, or
\* on to the user lookup
AfterViewer(st, o) ==
    LET st1 == Asked(st, "viewer", o) IN
    IF o.err
    THEN Finish(st1, ToolError("Error querying authenticated user: ", "err"))
    ELSE IF OwnerIsViewer(st, o)
    THEN [st1 EXCEPT !.pc = "mutate", !.viewer = o.login,
                     !.ownerID = o.id, !.via = "viewer"]
    ELSE [st1 EXCEPT !.pc = "user", !.viewer = o.login]

\* err = graphqlClient.Query(ctx, &viewerQuery, nil)
ViewerQuery ==
    /\ h.pc = "viewer"
    /\ \E o \in QueryOutcomes : h' = AfterViewer(h, o)
    /\ UNCHANGED <<readOnly, phase, tools, served, ran>>

\* variant: the success test is inverted on the error
UserFound_Inverted(o) == o.err /\ o.id # ""

\* err == nil && userQuery.User.ID != ""
UserFound(o) == ~o.err /\ o.id # ""

AfterUser(st, o) ==
    LET st1 == Asked(st, "user", o) IN
    IF UserFound(o)
    THEN [st1 EXCEPT !.pc = "mutate", !.ownerID = o.id, !.via = "user"]
    ELSE [st1 EXCEPT !.pc = "org"]

\* err = graphqlClient.Query(ctx, &userQuery, userVars)
UserLookup ==
    /\ h.pc = "user"
    /\ \E o \in QueryOutcomes : h' = AfterUser(h, o)
    /\ UNCHANGED <<readOnly, phase, tools, served, ran>>

\* variant: the empty organization id is not checked
AfterOrg_NoIdCheck(st, o) ==
    LET st1 == Asked(st, "org", o) IN
    IF o.err
    THEN Finish(st1, ToolError(
            "Could not find user or organization with login: ", st.owner))
    ELSE [st1 EXCEPT !.pc = "mutate", !.ownerID = o.id, !.via = "org"]

AfterOrg(st, o) ==
    LET st1 == Asked(st, "org", o) IN
    IF o.err
    THEN Finish(st1, ToolError(
            "Could not find user or organization with login: ", st.owner))
    ELSE IF o.id = ""
    THEN Finish(st1, ToolError(
            "Could not find ID for user or organization: ", st.owner))
    ELSE [st1 EXCEPT !.pc = "mutate", !.ownerID = o.id, !.via = "org"]

\* err = graphqlClient.Query(ctx, &orgQuery, orgVars)
OrgLookup ==
    /\ h.pc = "org"
    /\ \E o \in QueryOutcomes : h' = AfterOrg(h, o)
    /\ UNCHANGED <<readOnly, phase, tools, served, ran>>

AfterMutate(st, o) ==
    LET st1 == Asked(st, "mutation", o) IN
    IF o.err
    THEN Finish(st1, ToolError("Error creating project: ",
                               "err. Attempting REST API fallback..."))
    ELSE Finish(st1, ToolText(o.id))

\* err = graphqlClient.Mutate(ctx, &mutation, input, variables)
Mutate ==
    /\ h.pc = "mutate"
    /\ \E o \in QueryOutcomes : h' = AfterMutate(h, o)
    /\ UNCHANGED <<readOnly, phase, tools, served, ran>>

-----------------------------------------------------------------------------
(* Request arguments: the dynamic values of r.Params.Arguments *)

\* a dynamic value: its Go type t and, by type, a string s, a number n,
\* a boolean b or a list l.  A float64 holds n halves (n = 3 is 1.5).
Dyn(t, str, n, bool, l) == [t |-> t, s |-> str, n |-> n, b |-> bool, l |-> l]

Nil        == Dyn("nil", "", 0, FALSE, <<>>)
Str(x)     == Dyn("string", x, 0, FALSE, <<>>)
Bool(x)    == Dyn("bool", "", 0, x, <<>>)
Flt(k)     == Dyn("float64", "", k, FALSE, <<>>)
GoInt(n)     == Dyn("int", "", n, FALSE, <<>>)
GoInt64(n)   == Dyn("int64", "", n, FALSE, <<>>)
Num(x)     == Dyn("json.Number", x, 0, FALSE, <<>>)
Map        == Dyn("map", "", 0, FALSE, <<>>)
StrArr(l)  == Dyn("[]string", "", 0, FALSE, l)
AnyArr(l)  == Dyn("[]any", "", 0, FALSE, l)

\* the key is not in the map
Absent     == Dyn("absent", "", 0, FALSE, <<>>)

\* the float64 with the integral value n
FltOf(n) == Flt(2 * n)

IntVals == { 0, 1, 5, 150 }

\* floats: the integers of IntVals, 0.5 and 5.5
FloatVals == { FltOf(n) : n \in IntVals } \cup { Flt(1), Flt(11) }

NumberTexts == { "0", "5", "5.5", "abc" }

Scalars ==
    { Nil, Map, Str(""), Str("acme"), Str("5"), Bool(TRUE), Bool(FALSE) }
    \cup FloatVals
    \cup { GoInt(n) : n \in {0, 5} } \cup { GoInt64(n) : n \in {0, 5} }
    \cup { Num(x) : x \in NumberTexts }

SeqsUpTo(S, n) == UNION { [1..k -> S] : k \in 0..n }

StrArrs == { StrArr(l) : l \in SeqsUpTo({"a", "b"}, MaxSeqLen) }

AnyArrs == { AnyArr(l) : l \in SeqsUpTo({Str("a"), Str("b"), FltOf(1)}, MaxSeqLen) }

DynVals == Scalars \cup StrArrs \cup AnyArrs

ParamNames == { "owner", "page", "perPage" }

NoArgs == [q \in ParamNames |-> Absent]

\* values tried for page and perPage together
PageVals == FloatVals \cup { Absent, GoInt(5), Str("5") }

\* argument maps: one key set to any value, or page and perPage set
ArgMaps ==
    { [NoArgs EXCEPT ![q] = v] : q \in ParamNames, v \in DynVals }
    \cup { [NoArgs EXCEPT !["page"] = v, !["perPage"] = w] :
             v \in PageVals, w \in PageVals }
    \cup { NoArgs }

-----------------------------------------------------------------------------
(* The parameter helpers *)

\* a helper's return: err is "none" or the kind of the error, names the
\* parameter the error text carries, ok the presence flag of OptionalParamOK
Out(val, ok, err, names) == [val |-> val, ok |-> ok, err |-> err, names |-> names]

\* var zero T
Zero(T) == IF T = "string" THEN Str("")
           ELSE IF T = "bool" THEN Bool(FALSE)
           ELSE IF T = "float64" THEN Flt(0)
           ELSE GoInt(0)

\* the type assertion val.(T)
IsType(v, T) == v.t = T

\* int(val) of a float64: truncation toward zero
IntOfFloat(v) == IF v.n >= 0 THEN v.n \div 2 ELSE -((-v.n) \div 2)

\* json.Number.Int64: the value of a decimal integer text, -1 for an error
ParseInt64(x) == IF x = "0" THEN 0 ELSE IF x = "5" THEN 5
                 ELSE IF x = "1" THEN 1 ELSE IF x = "150" THEN 150 ELSE -1

\* variant: the zero-value check is missing
requiredParam_NoZeroCheck(args, p, T) ==
    IF args[p] = Absent THEN Out(Zero(T), FALSE, "missing", p)
    ELSE IF ~IsType(args[p], T) THEN Out(Zero(T), FALSE, "type", p)
    ELSE Out(args[p], FALSE, "none", "")

requiredParam(args, p, T) ==
    IF args[p] = Absent THEN Out(Zero(T), FALSE, "missing", p)
    ELSE IF ~IsType(args[p], T) THEN Out(Zero(T), FALSE, "type", p)
    ELSE IF args[p] = Zero(T) THEN Out(Zero(T), FALSE, "missing", p)
    ELSE Out(args[p], FALSE, "none", "")

requiredInt(args, p) ==
    LET v == args[p] IN
    IF v = Absent THEN Out(GoInt(0), FALSE, "missing", p)
    ELSE IF v.t = "float64" THEN Out(GoInt(IntOfFloat(v)), FALSE, "none", "")
    ELSE IF v.t = "int" THEN Out(GoInt(v.n), FALSE, "none", "")
    ELSE IF v.t = "int64" THEN Out(GoInt(v.n), FALSE, "none", "")
    ELSE IF v.t = "json.Number" THEN
        IF ParseInt64(v.s) = -1 THEN Out(GoInt(0), FALSE, "parse", p)
        ELSE Out(GoInt(ParseInt64(v.s)), FALSE, "none", "")
    ELSE Out(GoInt(0), FALSE, "type", p)

\* variant: a value of the wrong type is taken for a missing one
OptionalParam_WrongTypeIsZero(args, p, T) ==
    IF args[p] = Absent THEN Out(Zero(T), FALSE, "none", "")
    ELSE IF ~IsType(args[p], T) THEN Out(Zero(T), FALSE, "none", "")
    ELSE Out(args[p], FALSE, "none", "")

OptionalParam(args, p, T) ==
    IF args[p] = Absent THEN Out(Zero(T), FALSE, "none", "")
    ELSE IF ~IsType(args[p], T) THEN Out(Zero(T), FALSE, "type", p)
    ELSE Out(args[p], FALSE, "none", "")

OptionalParamOK(args, p, T) ==
    IF args[p] = Absent THEN Out(Zero(T), FALSE, "none", "")
    ELSE IF ~IsType(args[p], T) THEN Out(Zero(T), TRUE, "type", p)
    ELSE Out(args[p], TRUE, "none", "")

OptionalIntParam(args, p) ==
    LET o == OptionalParam(args, p, "float64") IN
    IF o.err # "none" THEN Out(GoInt(0), FALSE, o.err, o.names)
    ELSE Out(GoInt(IntOfFloat(o.val)), FALSE, "none", "")

\* variant: the default is applied only to an absent key
OptionalIntParamWithDefault_AbsentOnly(args, p, d) ==
    LET o == OptionalIntParam(args, p) IN
    IF o.err # "none" THEN Out(GoInt(0), FALSE, o.err, o.names)
    ELSE IF args[p] = Absent THEN Out(GoInt(d), FALSE, "none", "")
    ELSE o

OptionalIntParamWithDefault(args, p, d) ==
    LET o == OptionalIntParam(args, p) IN
    IF o.err # "none" THEN Out(GoInt(0), FALSE, o.err, o.names)
    ELSE IF o.val = GoInt(0) THEN Out(GoInt(d), FALSE, "none", "")
    ELSE o

\* whether every element of a generic list is a string
AllStrings(l) == \A j \in 1..Len(l) : l[j].t = "string"

\* variant: elements that are not strings are skipped over
OptionalStringArrayParam_Lenient(args, p) ==
    LET v == args[p] IN
    IF v = Absent THEN Out(StrArr(<<>>), FALSE, "none", "")
    ELSE IF v.t = "nil" THEN Out(StrArr(<<>>), FALSE, "none", "")
    ELSE IF v.t = "[]string" THEN Out(v, FALSE, "none", "")
    ELSE IF v.t = "[]any" THEN
        Out(StrArr([j \in 1..Len(v.l) |-> v.l[j].s]), FALSE, "none", "")
    ELSE Out(StrArr(<<>>), FALSE, "coerce", p)

OptionalStringArrayParam(args, p) ==
    LET v == args[p] IN
    IF v = Absent THEN Out(StrArr(<<>>), FALSE, "none", "")
    ELSE IF v.t = "nil" THEN Out(StrArr(<<>>), FALSE, "none", "")
    ELSE IF v.t = "[]string" THEN Out(v, FALSE, "none", "")
    ELSE IF v.t = "[]any" THEN
        IF AllStrings(v.l)
        THEN Out(StrArr([j \in 1..Len(v.l) |-> v.l[j].s]), FALSE, "none", "")
        ELSE Out(StrArr(<<>>), FALSE, "type", p)
    ELSE Out(StrArr(<<>>), FALSE, "coerce", p)

\* mcp.Max(100) declared by WithPagination for perPage
MaxPerPage == 100

DefaultPage == 1
DefaultPerPage == 30

\* PaginationParams and the error
Pagination(page, perPage, err, names) ==
    [page |-> page, perPage |-> perPage, err |-> err, names |-> names]

OptionalPaginationParams(args) ==
    LET pg == OptionalIntParamWithDefault(args, "page", DefaultPage)
        pp == OptionalIntParamWithDefault(args, "perPage", DefaultPerPage)
    IN  IF pg.err # "none" THEN Pagination(0, 0, pg.err, pg.names)
        ELSE IF pp.err # "none" THEN Pagination(0, 0, pp.err, pp.names)
        ELSE Pagination(pg.val.n, pp.val.n, "none", "")

GenericTypes == { "string", "bool", "float64" }

NoOut == Out(Nil, FALSE, "pending", "")

NoPagination == Pagination(0, 0, "pending", "")

BinderInit(args) ==
    [pc |-> "ready", args |-> args, op |-> "", p |-> "", T |-> "",
     out |-> NoOut, pages |-> NoPagination]

Bound(op, p, T, o) ==
    [b EXCEPT !.pc = "done", !.op = op, !.p = p, !.T = T, !.out = o]

CallRequiredParam ==
    /\ b.pc = "ready"
    /\ \E p \in ParamNames, T \in GenericTypes :
         b' = Bound("requiredParam", p, T, requiredParam(b.args, p, T))

CallRequiredInt ==
    /\ b.pc = "ready"
    /\ \E p \in ParamNames :
         b' = Bound("requiredInt", p, "int", requiredInt(b.args, p))

CallOptionalParam ==
    /\ b.pc = "ready"
    /\ \E p \in ParamNames, T \in GenericTypes :
         b' = Bound("OptionalParam", p, T, OptionalParam(b.args, p, T))

CallOptionalParamOK ==
    /\ b.pc = "ready"
    /\ \E p \in ParamNames, T \in GenericTypes :
         b' = Bound("OptionalParamOK", p, T, OptionalParamOK(b.args, p, T))

CallOptionalIntParam ==
    /\ b.pc = "ready"
    /\ \E p \in ParamNames :
         b' = Bound("OptionalIntParam", p, "int", OptionalIntParam(b.args, p))

CallOptionalStringArrayParam ==
    /\ b.pc = "ready"
    /\ \E p \in ParamNames :
         b' = Bound("OptionalStringArrayParam", p, "[]string",
                    OptionalStringArrayParam(b.args, p))

CallOptionalPaginationParams ==
    /\ b.pc = "ready"
    /\ b' = [b EXCEPT !.pc = "done", !.op = "OptionalPaginationParams",
                      !.pages = OptionalPaginationParams(b.args)]

-----------------------------------------------------------------------------
(* The get_project_v2 handler (projects.go) *)

\* request.Params.Arguments["owner"] of a get_project_v2 call
ProjectOwnerArgs ==
    { Absent, Nil, FltOf(5), Str("") } \cup { Str(l) : l \in Logins }

\* request.Params.Arguments["number"]: 5, 5.5 and forms the switch ignores
ProjectNumberArgs ==
    { Absent, FltOf(5), Flt(11), GoInt(5), GoInt64(5), Str("1"), Str("5") }

\* number := 1 // Default fallback
DefaultNumber == 1

\* owner after the extraction: the argument if it is a string (the empty
\* string included), else the default
ProjectOwner(arg) == IF arg.t = "string" THEN arg.s ELSE DefaultOwner

\* number after the switch: float64 is truncated, int is taken, every other
\* form keeps the default
ProjectNumber(arg) ==
    CASE arg.t = "float64" -> IntOfFloat(arg)
      [] arg.t = "int"     -> arg.n
      [] OTHER             -> DefaultNumber

\* where a project with the requested number exists for the owner's login
Places == { "user", "org", "none" }

GetProjectInit(ownerArg, numberArg, place) ==
    [pc |-> "project_client", ownerArg |-> ownerArg, numberArg |-> numberArg,
     owner |-> ProjectOwner(ownerArg), number |-> ProjectNumber(numberArg),
     place |-> place, queries |-> <<>>, result |-> Pending]

\* outcome of graphqlClient.Query for the project under q, and of the
\* json.Marshal of its answer: a failed query fills nothing, a successful one
\* carries an id iff the project is there
ProjectOutcomes(st, q) ==
    { o \in [err : BOOLEAN, id : NodeIDs, marshalErr : BOOLEAN] :
        /\ o.err => (o.id = "" /\ ~o.marshalErr)
        /\ ~o.err => (o.id # "" <=> st.place = q) }

ProjectAsked(st, q, o) ==
    [st EXCEPT !.queries = Append(@, [q |-> q, owner |-> st.owner,
                                      number |-> st.number,
                                      err |-> o.err, id |-> o.id])]

\* _, graphqlClient, err := getClient(ctx), after the extraction above
ProjectGetClient ==
    /\ h.pc = "project_client"
    /\ \E failed \in BOOLEAN :
         h' = IF failed THEN Finish(h, GoError)
              ELSE [h EXCEPT !.pc = "project_user"]
    /\ UNCHANGED <<readOnly, phase, tools, served, ran>>

\* if err == nil && userQuery.User.ProjectV2.ID != ""
AfterProjectUser(st, o) ==
    LET st1 == ProjectAsked(st, "user", o) IN
    IF ~o.err /\ o.id # ""
    THEN IF o.marshalErr THEN Finish(st1, GoError)
         ELSE Finish(st1, ToolText(o.id))
    ELSE [st1 EXCEPT !.pc = "project_org"]

ProjectUserQuery ==
    /\ h.pc = "project_user"
    /\ \E o \in ProjectOutcomes(h, "user") : h' = AfterProjectUser(h, o)
    /\ UNCHANGED <<readOnly, phase, tools, served, ran>>

\* lines 205-217: only err decides; the answer is marshalled as it is
AfterProjectOrg(st, o) ==
    LET st1 == ProjectAsked(st, "org", o) IN
    IF o.err
    THEN Finish(st1, ToolError("Error getting project: ", "err.Error()"))
    ELSE IF o.marshalErr THEN Finish(st1, GoError)
    ELSE Finish(st1, ToolText(o.id))

ProjectOrgQuery ==
    /\ h.pc = "project_org"
    /\ \E o \in ProjectOutcomes(h, "org") : h' = AfterProjectOrg(h, o)
    /\ UNCHANGED <<readOnly, phase, tools, served, ran>>

-----------------------------------------------------------------------------
(* The diagnose_github_mcp and get_me handlers (diagnostics.go) *)

\* a run-time panic inside the handler: nothing is returned
Panic == [kind |-> "panic", isError |-> FALSE, text |-> <<"", "">>]

Abort(st) == [st EXCEPT !.pc = "aborted", !.result = Panic]

\* lengths of GITHUB_PERSONAL_ACCESS_TOKEN: unset, shorter than 5, a token
TokenLens == { 0, 3, 40 }

\* token[:5]
TokenPrefixLen == 5

DiagnoseInit(len) ==
    [pc |-> "diag_env", token |-> len, rest |-> "", graphql |-> "",
     scopes |-> "", queries |-> <<>>, result |-> Pending]

\* one outbound call q of the handler and whether it failed
Called(st, q, err) ==
    [st EXCEPT !.queries = Append(@, [q |-> q, err |-> err, id |-> ""])]

\* lines 31-38: the token is read; an empty one ends the run with a report,
\* token[:5] panics on one shorter than five bytes
DiagEnv ==
    /\ h.pc = "diag_env"
    /\ h' = IF h.token = 0
            THEN Finish(h, ToolText("GITHUB_PERSONAL_ACCESS_TOKEN not set"))
            ELSE IF h.token < TokenPrefixLen THEN Abort(h)
            ELSE [h EXCEPT !.pc = "diag_rest"]
    /\ UNCHANGED <<readOnly, phase, tools, served, ran>>

\* outcome of restClient.Users.Get: a success has a response, a failure may
\* have one (an HTTP error status) or none (the request was never answered)
RestOutcomes == { o \in [err : BOOLEAN, resp : BOOLEAN] : ~o.err => o.resp }

\* lines 48-62: the error branch reads resp.Header
AfterRest(st, o) ==
    LET st1 == Called(st, "Users.Get", o.err) IN
    IF o.err /\ ~o.resp
    THEN Abort(st1)
    ELSE [st1 EXCEPT !.pc = "diag_graphql",
                     !.rest = IF o.err THEN "error" ELSE "success"]

DiagRest ==
    /\ h.pc = "diag_rest"
    /\ \E o \in RestOutcomes : h' = AfterRest(h, o)
    /\ UNCHANGED <<readOnly, phase, tools, served, ran>>

\* lines 65-83: err = gqlClient.Query(ctx, &query, nil)
DiagGraphQL ==
    /\ h.pc = "diag_graphql"
    /\ \E err \in BOOLEAN :
         h' = [Called(h, "viewer", err) EXCEPT
                   !.pc = "diag_scopes",
                   !.graphql = IF err THEN "error" ELSE "success"]
    /\ UNCHANGED <<readOnly, phase, tools, served, ran>>

\* lines 86-105: resp, err = client.Do(req), then the report is returned
DiagScopes ==
    /\ h.pc = "diag_scopes"
    /\ \E err \in BOOLEAN :
         h' = Finish([Called(h, "GET /user", err) EXCEPT
                         !.scopes = IF err THEN "error" ELSE "success"],
                     ToolText("diagnostics"))
    /\ UNCHANGED <<readOnly, phase, tools, served, ran>>

GetMeInit ==
    [pc |-> "me_client", status |-> 0, queries |-> <<>>, result |-> Pending]

\* http.StatusOK and another status go-github reports without an error
StatusOK == 200
Statuses == { StatusOK, 202 }

\* client, _, err := getClient(ctx)
MeGetClient ==
    /\ h.pc = "me_client"
    /\ \E failed \in BOOLEAN :
         h' = IF failed THEN Finish(h, GoError) ELSE [h EXCEPT !.pc = "me_get"]
    /\ UNCHANGED <<readOnly, phase, tools, served, ran>>

\* lines 302-305 and 316-321: Users.Get, then for status 200 json.Marshal
AfterUsersGet(st, err, status, marshalErr) ==
    LET st1 == Called(st, "Users.Get", err) IN
    IF err THEN Finish(st1, GoError)
    ELSE IF status # StatusOK
    THEN [st1 EXCEPT !.pc = "me_body", !.status = status]
    ELSE IF marshalErr THEN Finish([st1 EXCEPT !.status = status], GoError)
    ELSE Finish([st1 EXCEPT !.status = status], ToolText("user"))

MeUsersGet ==
    /\ h.pc = "me_get"
    /\ \E err \in BOOLEAN, status \in Statuses, marshalErr \in BOOLEAN :
         h' = AfterUsersGet(h, err, status, marshalErr)
    /\ UNCHANGED <<readOnly, phase, tools, served, ran>>

\* lines 308-314: body, err := io.ReadAll(resp.Body)
MeReadBody ==
    /\ h.pc = "me_body"
    /\ \E readErr \in BOOLEAN :
         h' = IF readErr THEN Finish(h, GoError)
              ELSE Finish(h, ToolError("failed to get user: ", "body"))
    /\ UNCHANGED <<readOnly, phase, tools, served, ran>>

-----------------------------------------------------------------------------
(* The delete_project_v2_item handler (projects.go) *)

DeleteArgNames == { "project_id", "item_id" }

\* values of an id argument: absent, empty, a node id, a number
IdArgs == { Absent, Str(""), Str("PVT_1"), FltOf(5) }

DeleteArgMaps == [DeleteArgNames -> IdArgs]

DeleteInit(args) ==
    [pc |-> "delete_client", args |-> args, queries |-> <<>>,
     result |-> Pending]

\* mcp.NewToolResultError(err.Error()) for the error of requiredParam
ParamError(o, T) ==
    IF o.err = "missing"
    THEN ToolError("missing required parameter: ", o.names)
    ELSE ToolError("parameter is not of type " \o T \o ": ", o.names)

\* getClient, then the two requiredParam[string] calls
AfterDeleteClient(st, failed) ==
    LET projectID == requiredParam(st.args, "project_id", "string")
        itemID    == requiredParam(st.args, "item_id", "string")
    IN  IF failed THEN Finish(st, GoError)
        ELSE IF projectID.err # "none"
        THEN Finish(st, ParamError(projectID, "string"))
        ELSE IF itemID.err # "none"
        THEN Finish(st, ParamError(itemID, "string"))
        ELSE [st EXCEPT !.pc = "delete_mutate"]

DeleteGetClient ==
    /\ h.pc = "delete_client"
    /\ \E failed \in BOOLEAN : h' = AfterDeleteClient(h, failed)
    /\ UNCHANGED <<readOnly, phase, tools, served, ran>>

\* err = graphqlClient.Mutate(...), then json.Marshal(mutation)
AfterDeleteMutate(st, err, marshalErr) ==
    LET st1 == Called(st, "mutation", err) IN
    IF err
    THEN Finish(st1, ToolError("Error deleting project item: ", "err.Error()"))
    ELSE IF marshalErr THEN Finish(st1, GoError)
    ELSE Finish(st1, ToolText("deleted"))

DeleteMutate ==
    /\ h.pc = "delete_mutate"
    /\ \E err \in BOOLEAN, marshalErr \in BOOLEAN :
         h' = AfterDeleteMutate(h, err, marshalErr)
    /\ UNCHANGED <<readOnly, phase, tools, served, ran>>

-----------------------------------------------------------------------------
(* Two concurrent executions of withRateLimitRetry *)

\* what fn returns to either of two concurrent executions: exhausted
\* headers with a reset now or later, ample quota, a rate-limit error,
\* another error
PairResponses ==
    { r \in Responses :
        \/ r.err = "none" /\ r.hasResp /\ r.remaining = 0 /\ r.limit > 0
                          /\ r.reset \in {0, MaxReset}
        \/ r.err = "none" /\ r.hasResp /\ r.remaining = 30 /\ r.reset = 0
        \/ r.err = "ratelimit" /\ r.reset = 0
        \/ r.err = "other" /\ r.id = "E1" }

\* the second execution: the same code on its own locals
Enter2 ==
    /\ g2.pc = "enter"
    /\ g2' = LoopTop(g2)
    /\ UNCHANGED <<g, now, ctx>>

\* the first execution's call of fn, with the responses of this section
Invoke1 ==
    /\ g.pc = "call"
    /\ \E r \in PairResponses : g' = AfterFn(g, r, now)
    /\ UNCHANGED <<g2, now, ctx>>

\* variant: handleRateLimit consults the remaining count last seen by
\* either execution
Invoke2_SharedQuota ==
    /\ g2.pc = "call"
    /\ \E r \in PairResponses :
         LET seen == IF r.err = "none" /\ g.trace # <<>>
                        /\ g.trace[Len(g.trace)].r.err = "none"
                     THEN [r EXCEPT !.remaining =
                               g.trace[Len(g.trace)].r.remaining]
                     ELSE r
         IN  g2' = [AfterFn(g2, seen, now) EXCEPT
                       !.trace = Append(g2.trace, [at |-> now, r |-> r])]
    /\ UNCHANGED <<g, now, ctx>>

Invoke2 ==
    /\ g2.pc = "call"
    /\ \E r \in PairResponses : g2' = AfterFn(g2, r, now)
    /\ UNCHANGED <<g, now, ctx>>

TimerFires2 ==
    /\ g2.pc = "select"
    /\ now >= g2.wakeAt
    /\ g2' = LoopTop([g2 EXCEPT !.i = @ + 1])
    /\ UNCHANGED <<g, now, ctx>>

\* the clock advances while no select of either execution is ready
TickPair ==
    /\ now < MaxTime
    /\ g.pc # "done" \/ g2.pc # "done"
    /\ ~SelectReady
    /\ ~(g2.pc = "select" /\ now >= g2.wakeAt)
    /\ now' = now + 1
    /\ UNCHANGED <<g, g2, ctx>>

-----------------------------------------------------------------------------
(* Specifications *)

NoHandler == [pc |-> "idle"]

BinderIdle == b = [pc |-> "idle"]

PairIdle == g2 = [pc |-> "idle"]

GuardIdle ==
    /\ g = GuardInit(0)
    /\ now = 0
    /\ ctx = NoCtx

ServerOff ==
    /\ phase = "off"
    /\ tools = {}
    /\ served = <<>>
    /\ ran = {}

\* one execution of withRateLimitRetry
Init ==
    /\ \E m \in -1..MaxRetriesBound : g = GuardInit(m)
    /\ now = 0
    /\ ctx = NoCtx
    /\ readOnly = FALSE
    /\ ServerOff
    /\ h = NoHandler
    /\ BinderIdle
    /\ PairIdle

Next ==
    \/ Enter /\ UNCHANGED <<serverVars, b, g2>>
    \/ Invoke /\ UNCHANGED <<serverVars, b, g2>>
    \/ TimerFires /\ UNCHANGED <<serverVars, b, g2>>
    \/ CtxDone /\ UNCHANGED <<serverVars, b, g2>>
    \/ Cancel /\ UNCHANGED <<serverVars, b, g2>>
    \/ Tick /\ UNCHANGED <<serverVars, b, g2>>

Spec == Init /\ [][Next]_vars

\* the server from startup on, serving tool calls
InitServer ==
    /\ GuardIdle
    /\ readOnly \in BOOLEAN
    /\ ServerOff
    /\ h = NoHandler
    /\ BinderIdle
    /\ PairIdle

NextServer ==
    \/ CreateServer /\ UNCHANGED <<guardVars, b, g2>>
    \/ Listen /\ UNCHANGED <<guardVars, b, g2>>
    \/ Dispatch /\ UNCHANGED <<guardVars, b, g2>>

SpecServer == InitServer /\ [][NextServer]_vars

\* one invocation of the create_project_v2 handler
InitCreateProject ==
    /\ GuardIdle
    /\ readOnly = FALSE
    /\ phase = "listening"
    /\ tools = NewServer(FALSE)
    /\ served = <<>>
    /\ ran = {Tool("create", "project_v2")}
    /\ \E arg \in OwnerArgs : h = HandlerInit(arg)
    /\ BinderIdle
    /\ PairIdle

NextCreateProject ==
    \/ GetClient /\ UNCHANGED <<guardVars, b, g2>>
    \/ ViewerQuery /\ UNCHANGED <<guardVars, b, g2>>
    \/ UserLookup /\ UNCHANGED <<guardVars, b, g2>>
    \/ OrgLookup /\ UNCHANGED <<guardVars, b, g2>>
    \/ Mutate /\ UNCHANGED <<guardVars, b, g2>>

SpecCreateProject == InitCreateProject /\ [][NextCreateProject]_vars

\* one call of a parameter helper on one argument map
InitBinder ==
    /\ GuardIdle
    /\ readOnly = FALSE
    /\ ServerOff
    /\ h = NoHandler
    /\ \E args \in ArgMaps : b = BinderInit(args)
    /\ PairIdle

NextBinder ==
    \/ CallRequiredParam /\ UNCHANGED <<guardVars, serverVars, g2>>
    \/ CallRequiredInt /\ UNCHANGED <<guardVars, serverVars, g2>>
    \/ CallOptionalParam /\ UNCHANGED <<guardVars, serverVars, g2>>
    \/ CallOptionalParamOK /\ UNCHANGED <<guardVars, serverVars, g2>>
    \/ CallOptionalIntParam /\ UNCHANGED <<guardVars, serverVars, g2>>
    \/ CallOptionalStringArrayParam /\ UNCHANGED <<guardVars, serverVars, g2>>
    \/ CallOptionalPaginationParams /\ UNCHANGED <<guardVars, serverVars, g2>>

SpecBinder == InitBinder /\ [][NextBinder]_vars

\* one invocation of the get_project_v2 handler
InitGetProject ==
    /\ GuardIdle
    /\ readOnly = FALSE
    /\ phase = "listening"
    /\ tools = NewServer(FALSE)
    /\ served = <<>>
    /\ ran = {Tool("get", "project_v2")}
    /\ \E ownerArg \in ProjectOwnerArgs, numberArg \in ProjectNumberArgs,
          place \in Places :
         h = GetProjectInit(ownerArg, numberArg, place)
    /\ BinderIdle
    /\ PairIdle

NextGetProject ==
    \/ ProjectGetClient /\ UNCHANGED <<guardVars, b, g2>>
    \/ ProjectUserQuery /\ UNCHANGED <<guardVars, b, g2>>
    \/ ProjectOrgQuery /\ UNCHANGED <<guardVars, b, g2>>

SpecGetProject == InitGetProject /\ [][NextGetProject]_vars

\* one invocation of one handler: diagnose_github_mcp, get_me,
\* create_project_v2, get_project_v2 or delete_project_v2_item
InitHandlers ==
    /\ GuardIdle
    /\ readOnly = FALSE
    /\ phase = "listening"
    /\ tools = NewServer(FALSE)
    /\ served = <<>>
    /\ \/ /\ ran = {}   \* NewServer does not add it: the handler is called directly
          /\ \E len \in TokenLens : h = DiagnoseInit(len)
       \/ /\ ran = {Tool("get", "me")}
          /\ h = GetMeInit
       \/ /\ ran = {Tool("create", "project_v2")}
          /\ \E arg \in OwnerArgs : h = HandlerInit(arg)
       \/ /\ ran = {Tool("get", "project_v2")}
          /\ \E ownerArg \in ProjectOwnerArgs, numberArg \in ProjectNumberArgs,
                place \in Places :
               h = GetProjectInit(ownerArg, numberArg, place)
       \/ /\ ran = {Tool("delete", "project_v2_item")}
          /\ \E args \in DeleteArgMaps : h = DeleteInit(args)
    /\ BinderIdle
    /\ PairIdle

NextHandlers ==
    \/ DiagEnv /\ UNCHANGED <<guardVars, b, g2>>
    \/ DiagRest /\ UNCHANGED <<guardVars, b, g2>>
    \/ DiagGraphQL /\ UNCHANGED <<guardVars, b, g2>>
    \/ DiagScopes /\ UNCHANGED <<guardVars, b, g2>>
    \/ MeGetClient /\ UNCHANGED <<guardVars, b, g2>>
    \/ MeUsersGet /\ UNCHANGED <<guardVars, b, g2>>
    \/ MeReadBody /\ UNCHANGED <<guardVars, b, g2>>
    \/ GetClient /\ UNCHANGED <<guardVars, b, g2>>
    \/ ViewerQuery /\ UNCHANGED <<guardVars, b, g2>>
    \/ UserLookup /\ UNCHANGED <<guardVars, b, g2>>
    \/ OrgLookup /\ UNCHANGED <<guardVars, b, g2>>
    \/ Mutate /\ UNCHANGED <<guardVars, b, g2>>
    \/ ProjectGetClient /\ UNCHANGED <<guardVars, b, g2>>
    \/ ProjectUserQuery /\ UNCHANGED <<guardVars, b, g2>>
    \/ ProjectOrgQuery /\ UNCHANGED <<guardVars, b, g2>>
    \/ DeleteGetClient /\ UNCHANGED <<guardVars, b, g2>>
    \/ DeleteMutate /\ UNCHANGED <<guardVars, b, g2>>

SpecHandlers == InitHandlers /\ [][NextHandlers]_vars

\* two executions of withRateLimitRetry, interleaved, under contexts that
\* are never cancelled
InitPair ==
    /\ \E m \in 0..MaxPairRetries : g = GuardInit(m)
    /\ \E m \in 0..MaxPairRetries : g2 = GuardInit(m)
    /\ now = 0
    /\ ctx = NoCtx
    /\ readOnly = FALSE
    /\ ServerOff
    /\ h = NoHandler
    /\ BinderIdle

NextPair ==
    \/ Enter /\ UNCHANGED <<serverVars, b, g2>>
    \/ Invoke1 /\ UNCHANGED <<serverVars, b>>
    \/ TimerFires /\ UNCHANGED <<serverVars, b, g2>>
    \/ Enter2 /\ UNCHANGED <<serverVars, b>>
    \/ Invoke2 /\ UNCHANGED <<serverVars, b>>
    \/ TimerFires2 /\ UNCHANGED <<serverVars, b>>
    \/ TickPair /\ UNCHANGED <<serverVars, b>>

SpecPair == InitPair /\ [][NextPair]_vars

-----------------------------------------------------------------------------
(* Properties of withRateLimitRetry *)

Calls == Len(g.trace)

\* the attempt's response headers report remaining = 0
HdrExhausted(r) == r.err = "none" /\ r.hasResp /\ r.remaining = 0

\* the attempt failed with a rate-limit error
ErrExhausted(r) == r.err = "ratelimit"

Exhausted(r) == HdrExhausted(r) \/ ErrExhausted(r)

\* the attempt succeeded with quota left
QuotaLeft(r) == r.err = "none" /\ r.hasResp /\ r.remaining > 0

\* the first k attempts reported remaining = 0 with a reset time in the future
FirstHdrExhaustedFuture(k) ==
    /\ Calls >= k
    /\ \A j \in 1..k : /\ HdrExhausted(g.trace[j].r)
                       /\ g.trace[j].r.reset > g.trace[j].at

\* C2: with maxRetries >= 1 and k < maxRetries, if the first k invocations
\* of fn report remaining = 0 with a future reset time and invocation k+1
\* reports remaining > 0, the guard has returned success after exactly k
\* sleeps and exactly k+1 invocations.
C2_SuccessAfterKSleeps ==
    \A k \in 0..MaxRetriesBound :
        ( /\ g.maxRetries >= 1
          /\ k < g.maxRetries
          /\ Calls >= k + 1
          /\ FirstHdrExhaustedFuture(k)
          /\ QuotaLeft(g.trace[k + 1].r) )
        => /\ g.pc = "done"
           /\ g.result.kind = "nil"
           /\ Len(g.sleeps) = k
           /\ Calls = k + 1

C2_Witness ==
    /\ g.pc = "done"
    /\ g.result.kind = "nil"
    /\ g.maxRetries = 2
    /\ Calls = 2
    /\ FirstHdrExhaustedFuture(1)
    /\ QuotaLeft(g.trace[2].r)
    /\ Len(g.sleeps) = 1

\* the first n attempts all reported exhaustion
FirstExhausted(n) ==
    /\ Calls >= n
    /\ \A j \in 1..n : Exhausted(g.trace[j].r)

\* C3 as stated: after maxRetries consecutive exhaustions the guard returns
\* a terminal rate-limit error, whatever a further attempt returns.
C3_TerminalAfterMaxRetries ==
    ( /\ g.pc = "done"
      /\ ~ctx.cancelled
      /\ g.maxRetries >= 1
      /\ FirstExhausted(g.maxRetries) )
    => g.result.kind = "ratelimit"

\* C3 amended: after maxRetries + 1 consecutive exhaustions (every attempt
\* of the budget exhausted) the guard has returned a terminal rate-limit
\* error that wraps the exhaustion observed on the last attempt.
C3_TerminalAfterAllAttempts ==
    ( /\ g.maxRetries >= 0
      /\ FirstExhausted(g.maxRetries + 1) )
    => /\ g.pc = "done"
       /\ g.result.kind = "ratelimit"
       /\ g.result.of = g.trace[g.maxRetries + 1].r
       /\ Calls = g.maxRetries + 1

C3_Witness ==
    /\ g.maxRetries = 2
    /\ FirstExhausted(3)
    /\ HdrExhausted(g.trace[1].r)
    /\ ErrExhausted(g.trace[2].r)
    /\ g.pc = "done"
    /\ g.result.kind = "ratelimit"
    /\ g.result.of = g.trace[3].r

\* C4: fn is invoked at most maxRetries + 1 times, and a rate-limit error
\* is returned only when fn has been invoked exactly maxRetries + 1 times.
C4_AttemptBudget ==
    g.maxRetries >= 0 =>
        /\ Calls <= g.maxRetries + 1
        /\ (g.pc = "done" /\ g.result.kind = "ratelimit")
               => Calls = g.maxRetries + 1

C4_Witness ==
    /\ g.maxRetries = 2
    /\ g.pc = "done"
    /\ g.result.kind = "ratelimit"
    /\ Calls = 3
    /\ Len(g.sleeps) = 2

\* C5: once the context is cancelled during a sleep, fn is not invoked
\* again and the guard returns the context's error, not a rate-limit error.
C5_CancelDuringSleep ==
    ctx.inSleep =>
        /\ Calls = ctx.calls
        /\ g.pc \in {"select", "done"}
        /\ g.pc = "done" => g.result.kind = "ctx"

C5_Witness ==
    /\ ctx.inSleep
    /\ g.pc = "done"
    /\ g.result.kind = "ctx"
    /\ Len(g.sleeps) = 2
    /\ g.sleeps[1].branch = "err"
    /\ g.sleeps[2].branch = "hdr"
    /\ g.i < g.maxRetries

\* C6: an attempt that fails with an error that is not a rate-limit error
\* is the last one: the guard has returned that error, no sleep followed
\* it and the attempt index did not advance.
C6_OtherErrorImmediate ==
    \A j \in 1..Calls :
        g.trace[j].r.err = "other" =>
            /\ j = Calls
            /\ g.pc = "done"
            /\ g.result = Result("other", "", g.trace[j].r)
            /\ Len(g.sleeps) = j - 1
            /\ g.i = j - 1

C6_Witness ==
    /\ g.maxRetries = 2
    /\ Calls = 2
    /\ g.trace[2].r.err = "other"
    /\ g.pc = "done"
    /\ g.result.of.id = "E2"
    /\ g.i = 1

\* C7: after exhaustion with reset time T is observed (T not already past),
\* every later invocation of fn happens at a time >= T.
C7_NoCallBeforeReset ==
    \A j \in 1..Calls : \A k \in 1..Calls :
        ( /\ j < k
          /\ Exhausted(g.trace[j].r)
          /\ g.trace[j].r.reset >= g.trace[j].at )
        => g.trace[k].at >= g.trace[j].r.reset

C7_Witness ==
    /\ Calls = 3
    /\ HdrExhausted(g.trace[1].r)
    /\ g.trace[1].r.reset > g.trace[1].at
    /\ ErrExhausted(g.trace[2].r)
    /\ g.trace[2].r.reset > g.trace[2].at
    /\ g.trace[3].at >= g.trace[2].r.reset

\* the k-th sleep of the run follows the k-th invocation of fn
SleepAfter(k) == g.sleeps[k]

\* C26: whenever an attempt i observes exhaustion (remaining = 0 in the
\* headers, or a rate-limit error) and resetAt - now is non-positive, the
\* sleep before the next attempt lasts 2^i seconds.
C26_BackoffWhenResetPassed ==
    \A k \in 1..Len(g.sleeps) :
        ( /\ Exhausted(g.trace[k].r)
          /\ g.trace[k].r.reset - SleepAfter(k).at <= 0 )
        => SleepAfter(k).d = Pow2(SleepAfter(k).attempt)

\* C27: a rate-limit error and a success with remaining = 0 are handled
\* identically: for the attempt index, reset time and clock of every sleep of
\* the run the two branches compute the same duration, and either exhaustion
\* on the last attempt ends the run with the terminal rate-limit error.
C27_BranchesAgree ==
    /\ \A k \in 1..Len(g.sleeps) :
         HdrSleepDuration(g.trace[k].r, SleepAfter(k).attempt, SleepAfter(k).at)
           = ErrSleepDuration(g.trace[k].r, SleepAfter(k).attempt, SleepAfter(k).at)
    /\ ( /\ g.maxRetries >= 0
         /\ Calls = g.maxRetries + 1
         /\ Exhausted(g.trace[Calls].r) )
       => (g.pc = "done" /\ g.result.kind = "ratelimit")

\* remaining > 0 and remaining / limit < 0.10
RatioBelowTenth(r) ==
    /\ r.err = "none"
    /\ r.hasResp
    /\ r.remaining > 0
    /\ r.limit > 0
    /\ 10 * r.remaining < r.limit

\* C28: a call that succeeds with remaining > 0 and remaining / limit < 0.10
\* is the last one of the run: one warning is printed and success is
\* returned at once, with no sleep after it and no retry consumed by it.
C28_LowQuotaWarnsOnly ==
    \A k \in 1..Calls :
        RatioBelowTenth(g.trace[k].r) =>
            /\ k = Calls
            /\ g.pc = "done"
            /\ g.result.kind = "nil"
            /\ g.warnings = 1
            /\ Len(g.sleeps) = k - 1
            /\ g.i = k - 1

C28_Witness ==
    /\ g.pc = "done"
    /\ g.result.kind = "nil"
    /\ Calls = 2
    /\ HdrExhausted(g.trace[1].r)
    /\ RatioBelowTenth(g.trace[2].r)
    /\ g.warnings = 1
    /\ Len(g.sleeps) = 1

\* the guard took the k-th response for an exhaustion: it slept on it in
\* the header branch, or returned the terminal error that wraps it
TreatedAsExhausted(k) ==
    \/ k <= Len(g.sleeps) /\ SleepAfter(k).branch = "hdr"
    \/ /\ k = Calls
       /\ g.pc = "done"
       /\ g.result.kind = "ratelimit"
       /\ g.result.of = g.trace[k].r

\* C30: handleRateLimit reports exhaustion exactly when the response is
\* non-nil and its remaining count is 0, whatever limit and reset are: a nil
\* response and a low ratio end the run with success, a response without
\* quota information (remaining = 0, limit = 0) makes the guard go to its
\* sleep and retry unless it was the last attempt.
C30_ExhaustedIffRemainingZero ==
    \A k \in 1..Calls :
        LET r == g.trace[k].r IN
        r.err = "none" =>
            /\ TreatedAsExhausted(k) <=> (r.hasResp /\ r.remaining = 0)
            /\ ~(r.hasResp /\ r.remaining = 0) =>
                 (k = Calls /\ g.pc = "done" /\ g.result.kind = "nil")
            /\ (r = NoQuotaResp /\ k <= g.maxRetries) =>
                 (k <= Len(g.sleeps) /\ SleepAfter(k).branch = "hdr")

C30_Witness ==
    /\ Calls = 2
    /\ g.trace[1].r = NoQuotaResp
    /\ Len(g.sleeps) = 1
    /\ SleepAfter(1).branch = "hdr"
    /\ g.trace[2].r = NoResp
    /\ g.pc = "done"
    /\ g.result.kind = "nil"


\* what an execution that runs alone does on the responses st has received:
\* every response but the last was an exhaustion followed by one sleep; a
\* response that is no exhaustion ends the run with its outcome; the
\* exhaustion of attempt maxRetries ends it with the terminal error
AsAlone(st) ==
    LET n == Len(st.trace)
        kind(r) == IF r.err = "other" THEN "other" ELSE "nil"
    IN  /\ n <= st.maxRetries + 1
        /\ \A j \in 1..(n - 1) : Exhausted(st.trace[j].r)
        /\ st.pc = "done" =>
             /\ n >= 1
             /\ Len(st.sleeps) = n - 1
             /\ IF Exhausted(st.trace[n].r)
                THEN n = st.maxRetries + 1 /\ st.result.kind = "ratelimit"
                ELSE st.result.kind = kind(st.trace[n].r)
        /\ (st.pc # "done" /\ n >= 1) =>
             /\ Exhausted(st.trace[n].r)
             /\ n <= st.maxRetries
             /\ Len(st.sleeps) = n

\* C24: in every interleaving of two executions each one's result, number
\* of fn invocations and number of sleeps are those of a run alone on its own
\* responses, whatever the other execution observes.
C24_NoInterference == AsAlone(g) /\ AsAlone(g2)

C24_Witness ==
    /\ g.pc = "done"
    /\ g2.pc = "done"
    /\ g.maxRetries = 1
    /\ Len(g.trace) = 2
    /\ HdrExhausted(g.trace[1].r)
    /\ g.trace[1].at = 0
    /\ g.trace[2].at = MaxReset
    /\ g.result.kind = "nil"
    /\ Len(g.sleeps) = 1
    /\ Len(g2.trace) = 1
    /\ g2.trace[1].at = 1
    /\ QuotaLeft(g2.trace[1].r)
    /\ g2.result.kind = "nil"
    /\ g2.sleeps = <<>>

-----------------------------------------------------------------------------
(* Properties of the tool registry *)

MutatingVerbs == { "create", "update", "merge", "add", "delete", "fork", "push" }

\* a create/update/merge/add/delete/fork/push tool
Mutating(name) == name[1] \in MutatingVerbs

\* C1: in read-only mode no mutating tool is registered, no handler of a
\* mutating tool is ever run, and a call naming a mutating tool gets the
\* unknown-tool outcome, the same as a call naming a tool that does not exist.
C1_ReadOnlyNoMutating ==
    readOnly =>
        /\ \A t \in tools : ~Mutating(t)
        /\ \A t \in ran : ~Mutating(t)
        /\ \A j \in 1..Len(served) :
             Mutating(served[j].tool) =>
                 /\ served[j] = UnknownTool(served[j].tool)
                 /\ \A k \in 1..Len(served) :
                      served[k].tool \in UnknownNames
                          => served[k].kind = served[j].kind

C1_Witness ==
    /\ readOnly
    /\ Len(served) = 2
    /\ served[1].tool = Tool("create", "project_v2")
    /\ served[1].kind = "UnknownToolError"
    /\ served[2].tool = Tool("get", "nothing")
    /\ served[2].kind = "UnknownToolError"
    /\ ran = {}

\* C23: the registry is filled once, by NewServer, before the server
\* listens; tool calls are dispatched only by the listening server, and from
\* then on the set of registered tool names never changes.
C23_RegistrySealed ==
    /\ [](Len(served) > 0 => (phase = "listening" /\ tools = NewServer(readOnly)))
    /\ [][ /\ tools' # tools => (phase = "off" /\ phase' = "built"
                                   /\ tools' = NewServer(readOnly))
           /\ phase = "built" => phase' \in {"built", "listening"}
           /\ phase = "listening" => (phase' = "listening" /\ tools' = tools)
         ]_vars

C23_Witness ==
    /\ phase = "listening"
    /\ ~readOnly
    /\ Len(served) = 2
    /\ served[1].kind = "result"
    /\ served[2].kind = "UnknownToolError"
    /\ tools = NewServer(FALSE)

-----------------------------------------------------------------------------
(* Properties of the owner resolution in create_project_v2 *)

Asks(q) == { j \in 1..Len(h.queries) : h.queries[j].q = q }

\* a lookup that yields no identifier: it errors or returns an empty id
NoId(e) == e.err \/ e.id = ""

\* C8: when the owner login equals the viewer's login, the viewer's node id
\* is the owner id and no user lookup and no organization lookup is issued.
C8_ViewerIsOwner ==
    h.pc # "idle" /\ h.viewer = h.owner =>
        /\ Asks("user") = {}
        /\ Asks("org") = {}
        /\ h.queries[1].q = "viewer"
        /\ h.ownerID = h.queries[1].id
        /\ h.via = "viewer"

C8_Witness ==
    /\ h.pc = "done"
    /\ h.viewer = h.owner
    /\ h.owner = "acme"
    /\ h.ownerID = "N_2"
    /\ h.result.kind = "result"
    /\ Len(h.queries) = 2

\* C9: the organization lookup directly follows a user lookup that errored
\* or returned an empty id; a login resolved as an organization causes
\* exactly the two lookups user, organization in that order; a user lookup
\* that succeeds with a non-empty id is followed by no organization lookup.
C9_OrgAfterUser ==
    h.pc # "idle" =>
        /\ \A j \in Asks("org") :
             /\ j > 1
             /\ h.queries[j - 1].q = "user"
             /\ NoId(h.queries[j - 1])
        /\ h.via = "org" =>
             /\ Cardinality(Asks("user")) = 1
             /\ Cardinality(Asks("org")) = 1
             /\ \A j \in Asks("user") : j + 1 \in Asks("org")
        /\ \A j \in Asks("user") :
             (~h.queries[j].err /\ h.queries[j].id # "") => Asks("org") = {}

C9_Witness ==
    /\ h.pc = "done"
    /\ h.via = "org"
    /\ h.ownerID = "N_1"
    /\ Len(h.queries) = 4
    /\ h.queries[2] = [q |-> "user", err |-> FALSE, id |-> ""]
    /\ h.queries[3] = [q |-> "org", err |-> FALSE, id |-> "N_1"]
    /\ h.queries[4].q = "mutation"

\* C10: when the owner is not the viewer and both the user lookup and the
\* organization lookup yield no identifier, the handler has returned a
\* tool-error result whose text names the login, and no mutation is issued.
C10_NotFound ==
    ( /\ h.pc # "idle"
      /\ \E j \in Asks("user") : NoId(h.queries[j])
      /\ \E j \in Asks("org") : NoId(h.queries[j]) )
    => /\ h.viewer # h.owner
       /\ h.pc = "done"
       /\ h.result.kind = "toolError"
       /\ h.result.isError
       /\ h.result.text[2] = h.owner
       /\ Asks("mutation") = {}

C10_Witness ==
    /\ h.pc = "done"
    /\ h.owner = "acme"
    /\ h.viewer = "manian0430"
    /\ h.queries[2] = [q |-> "user", err |-> TRUE, id |-> "N_1"]
    /\ h.queries[3] = [q |-> "org", err |-> FALSE, id |-> ""]
    /\ h.result = ToolError("Could not find ID for user or organization: ",
                            "acme")

\* the outbound calls of the invocation so far, by name
QueryNames == [j \in 1..Len(h.queries) |-> h.queries[j].q]

CallOrders ==
    { <<"viewer", "mutation">>,
      <<"viewer", "user", "mutation">>,
      <<"viewer", "user", "org", "mutation">> }

IsPrefix(s, t) == Len(s) <= Len(t) /\ \A j \in 1..Len(s) : s[j] = t[j]

\* C29: the outbound calls of one create_project_v2 call come in the order
\* viewer query, user lookup (only if the owner is not the viewer),
\* organization lookup (only if the user lookup gave no id), mutation; the
\* mutation is issued at most once, directly after the query that resolved
\* the owner id, and not at all when the viewer query or the resolution fails.
C29_CallOrder ==
    h.pc # "idle" =>
        /\ \E o \in CallOrders : IsPrefix(QueryNames, o)
        /\ Asks("user") # {} => (~h.queries[1].err /\ h.viewer # h.owner)
        /\ \A j \in Asks("org") : NoId(h.queries[j - 1])
        /\ Cardinality(Asks("mutation")) <= 1
        /\ \A j \in Asks("mutation") :
             /\ h.via \in {"viewer", "user", "org"}
             /\ h.queries[j - 1].q = h.via
             /\ ~h.queries[j - 1].err
             /\ h.ownerID = h.queries[j - 1].id
             /\ h.via # "viewer" => h.ownerID # ""
        /\ (Len(h.queries) >= 1 /\ h.queries[1].err) =>
             (Len(h.queries) = 1 /\ h.pc = "done" /\ h.result.isError)
        /\ (\E j \in Asks("org") : NoId(h.queries[j])) =>
             (Asks("mutation") = {} /\ h.pc = "done" /\ h.result.isError)

C29_Witness ==
    /\ h.pc = "done"
    /\ h.owner = "acme"
    /\ h.viewer = "manian0430"
    /\ QueryNames = <<"viewer", "user", "mutation">>
    /\ h.via = "user"
    /\ h.ownerID = "N_2"
    /\ h.queries[3].err
    /\ h.result.kind = "toolError"

-----------------------------------------------------------------------------
(* Properties of the parameter helpers *)

\* the argument the helper was asked for
Arg == b.args[b.p]

\* the value is the zero value of its own type
IsZeroValue(v) ==
    \/ v.t = "string" /\ v.s = ""
    \/ v.t = "bool" /\ v.b = FALSE
    \/ v.t = "float64" /\ v.n = 0

\* C11: requiredParam for string and bool returns an error naming p when p
\* is absent, has the wrong dynamic type or is the zero value; otherwise it
\* returns the supplied value and no error.
C11_RequiredParam ==
    (b.pc = "done" /\ b.op = "requiredParam" /\ b.T \in {"string", "bool"}) =>
        IF Arg = Absent \/ Arg.t # b.T \/ IsZeroValue(Arg)
        THEN /\ b.out.err # "none"
             /\ b.out.names = b.p
             /\ IsZeroValue(b.out.val)
        ELSE /\ b.out.err = "none"
             /\ b.out.val = Arg

C11_Witness ==
    /\ b.pc = "done"
    /\ b.op = "requiredParam"
    /\ b.T = "string"
    /\ b.p = "owner"
    /\ Arg = Str("")
    /\ b.out.err = "missing"
    /\ b.out.names = "owner"

\* a number in one of the accepted numeric forms
IsNumber(v) ==
    \/ v.t \in {"float64", "int", "int64"}
    \/ v.t = "json.Number" /\ v.s \in {"0", "1", "5", "150"}

IsZeroNumber(v) ==
    \/ v.t \in {"float64", "int", "int64"} /\ v.n = 0
    \/ v.t = "json.Number" /\ v.s = "0"

\* C12: requiredInt fails, naming the parameter, when the key is absent,
\* when the value is not numeric and when the number equals zero; it
\* succeeds only for a present non-zero number.
C12_RequiredIntRejectsZero ==
    (b.pc = "done" /\ b.op = "requiredInt") =>
        IF Arg # Absent /\ IsNumber(Arg) /\ ~IsZeroNumber(Arg)
        THEN b.out.err = "none"
        ELSE b.out.err # "none" /\ b.out.names = b.p

DecimalText(n) == IF n = 0 THEN "0" ELSE IF n = 1 THEN "1"
                  ELSE IF n = 5 THEN "5" ELSE "150"

\* the integer n as float64, int, int64 and decimal text
Forms(n) == { FltOf(n), GoInt(n), GoInt64(n), Num(DecimalText(n)) }

\* C13: for the numeric helpers, required and optional, an integer n
\* supplied as float64, int, int64 or decimal text binds to the integer n.
C13_SameIntegerAllForms ==
    (b.pc = "done" /\ b.op \in {"requiredInt", "OptionalIntParam"}) =>
        \A n \in {0, 5} :
            Arg \in Forms(n) => b.out.err = "none" /\ b.out.val = GoInt(n)

\* the integer part of a non-negative float64 of k halves
WholePart(k) == CHOOSE m \in 0..k : 2 * m <= k /\ k < 2 * m + 2

\* the page or perPage value expected for argument v and default d
Expected(v, d) ==
    IF v = Absent THEN d
    ELSE IF WholePart(v.n) = 0 THEN d
    ELSE WholePart(v.n)

Coerces(v) == v = Absent \/ v.t = "float64"

\* C14: OptionalPaginationParams returns page = 1 when page is absent or
\* coerces to zero and perPage = 30 when perPage is absent or coerces to
\* zero, each independently; a value that coerces to a non-zero integer is
\* returned as that integer.
C14_PaginationDefaults ==
    ( /\ b.pc = "done"
      /\ b.op = "OptionalPaginationParams"
      /\ Coerces(b.args["page"])
      /\ Coerces(b.args["perPage"]) )
    => /\ b.pages.err = "none"
       /\ b.pages.page = Expected(b.args["page"], 1)
       /\ b.pages.perPage = Expected(b.args["perPage"], 30)

C14_Witness ==
    /\ b.pc = "done"
    /\ b.op = "OptionalPaginationParams"
    /\ b.args["page"] = Flt(1)
    /\ b.args["perPage"] = FltOf(5)
    /\ b.pages = Pagination(1, 5, "none", "")

\* C15: a perPage above the declared maximum is rejected or reported as
\* out of bounds.
C15_OutOfBoundsRejected ==
    ( /\ b.pc = "done"
      /\ b.op = "OptionalPaginationParams"
      /\ b.args["page"] = Absent
      /\ b.args["perPage"].t = "float64"
      /\ b.args["perPage"].n > 2 * MaxPerPage )
    => b.pages.err # "none"

\* C16: OptionalParam returns the zero value and no error when the key is
\* absent and fails only when the key is present with a value of the wrong
\* type; OptionalParamOK also reports presence: false exactly when the key
\* is absent, true whenever it is present, also beside a type error.
C16_OptionalParam ==
    (b.pc = "done" /\ b.op \in {"OptionalParam", "OptionalParamOK"}) =>
        /\ Arg = Absent =>
             b.out.err = "none" /\ IsZeroValue(b.out.val) /\ b.out.val.t = b.T
        /\ (Arg # Absent /\ Arg.t # b.T) =>
             b.out.err # "none" /\ b.out.names = b.p
        /\ (Arg # Absent /\ Arg.t = b.T) =>
             b.out.err = "none" /\ b.out.val = Arg
        /\ b.op = "OptionalParamOK" => (b.out.ok <=> Arg # Absent)

C16_Witness ==
    /\ b.pc = "done"
    /\ b.op = "OptionalParamOK"
    /\ b.T = "string"
    /\ Arg = Str("")
    /\ b.out = Out(Str(""), TRUE, "none", "")

\* a string list, or a generic list whose every element is a string
IsStringList(v) ==
    \/ v.t = "[]string"
    \/ v.t = "[]any" /\ \A j \in 1..Len(v.l) : v.l[j].t = "string"

\* the elements of the list as plain strings
Elements(v) ==
    IF v.t = "[]string" THEN v.l ELSE [j \in 1..Len(v.l) |-> v.l[j].s]

\* C17 as stated: an empty list and no error when the key is absent, the
\* elements in order for a list of strings, and an error with an empty list
\* for every other value.
C17_StringArrayOrError ==
    (b.pc = "done" /\ b.op = "OptionalStringArrayParam") =>
        IF Arg = Absent
        THEN b.out.err = "none" /\ b.out.val = StrArr(<<>>)
        ELSE IF IsStringList(Arg)
        THEN b.out.err = "none" /\ b.out.val = StrArr(Elements(Arg))
        ELSE b.out.err # "none" /\ b.out.val = StrArr(<<>>)

\* C17 amended: as stated, except that a key present with the null value
\* yields an empty list and no error, like an absent key.
C17_StringArrayNullIsEmpty ==
    (b.pc = "done" /\ b.op = "OptionalStringArrayParam") =>
        IF Arg = Absent \/ Arg = Nil
        THEN b.out.err = "none" /\ b.out.val = StrArr(<<>>)
        ELSE IF IsStringList(Arg)
        THEN b.out.err = "none" /\ b.out.val = StrArr(Elements(Arg))
        ELSE b.out.err # "none" /\ b.out.val = StrArr(<<>>)

C17_Witness ==
    /\ b.pc = "done"
    /\ b.op = "OptionalStringArrayParam"
    /\ Arg = AnyArr(<<Str("b"), Str("a")>>)
    /\ b.out = Out(StrArr(<<"b", "a">>), FALSE, "none", "")

-----------------------------------------------------------------------------
(* Properties of the get_project_v2 handler *)

\* the owner argument is absent, empty or not a string
OwnerMissing(arg) == arg.t # "string" \/ arg.s = ""

\* C18: a get_project_v2 call whose owner argument is absent, empty or not a
\* string issues no outbound query, and unless the client could not be built
\* it ends with the tool error "missing required parameter: owner" or the
\* matching type error
C18_MissingOwnerRejected ==
    OwnerMissing(h.ownerArg) =>
        /\ h.queries = <<>>
        /\ (h.pc = "done" /\ h.result.kind # "goError") =>
             /\ h.result.kind = "toolError"
             /\ h.result.text \in
                  { <<"missing required parameter: ", "owner">>,
                    <<"parameter owner is not of type ", "string">> }

\* C19: a get_project_v2 call with a valid owner and a number that exists
\* under neither the user nor the organization of that login ends, unless the
\* client could not be built, with a tool error (isError = true), never with a
\* success result carrying an empty project
C19_AbsentProjectIsError ==
    ( /\ ~OwnerMissing(h.ownerArg)
      /\ h.place = "none"
      /\ h.pc = "done"
      /\ h.result.kind # "goError" )
    => /\ h.result.kind = "toolError"
       /\ h.result.isError

\* the stub answer TestGetProjectV2 expects
StubMessage == "GetProjectV2 handler executed, skipping actual API call."

\* C25: for any arguments the get_project_v2 handler issues no outbound
\* call and, unless the client could not be built, returns a result with
\* isError = false whose one text item is the stub message.
C25_StubAnswer ==
    /\ h.queries = <<>>
    /\ (h.pc = "done" /\ h.result.kind # "goError") =>
         h.result = ToolText(StubMessage)

-----------------------------------------------------------------------------
(* Properties of every handler *)

\* the invocation is one of the diagnostic tool, whose result is a report
\* of the outcomes of its calls
IsDiagnose == "token" \in DOMAIN h

\* the invocation ended on an outbound call that failed
EndedOnFailedCall ==
    /\ h.pc = "done"
    /\ h.queries # <<>>
    /\ h.queries[Len(h.queries)].err

\* C21: an invocation that ends on a failed outbound call returns a tool
\* result with isError = true and a message, not a protocol-level error.
C21_RemoteFailureIsToolError ==
    (EndedOnFailedCall /\ ~IsDiagnose) =>
        /\ h.result.kind = "toolError"
        /\ h.result.isError
        /\ h.result.text # <<"", "">>

\* C22: every outbound call a registered handler has issued is an
\* invocation of the fn of a withRateLimitRetry execution.
C22_CallsAreGuarded ==
    (h.pc # "idle" /\ ~IsDiagnose) => Len(h.queries) <= Len(g.trace)

\* C20: no handler invocation aborts the serving process, and one that has
\* returned has returned exactly one of a result, a tool-error result or an
\* error, whatever its arguments and the outcomes of its outbound calls
C20_OneOutcomeNoAbort ==
    /\ h.pc # "aborted"
    /\ h.pc = "done" => h.result.kind \in { "result", "toolError", "goError" }

====
